---- MODULE Spec2Model ----
\* Audio chunking and transcript stitching of src/app.py:
\*   AudioChunker.get_chunk_size_ms / AudioChunker.chunk_audio,
\*   process_large_audio (the pipeline driver) and merge_overlapping_text.
\* A text is a sequence of one-character strings; " " is the whitespace character.
EXTENDS Integers, Sequences, FiniteSets, TLC

\* ---------------------------------------------------------------- bounds
\* longest text handed to merge_overlapping_text
MaxTextLen == 4

\* min_overlap ranges over -MaxMinOverlap .. MaxMinOverlap
MaxMinOverlap == 3

\* len(audio) ranges over 1 .. MaxDurationSteps half seconds
MaxDurationSteps == 6

\* max_size_bytes ranges over 1 .. MaxSizeSteps units of HalfSec bytes
MaxSizeSteps == 5

\* len(audio.raw_data) / len(audio) ranges over 1 .. MaxBytesPerMs
MaxBytesPerMs == 2

\* overlap_sec ranges over 0 .. MaxOverlapSec
MaxOverlapSec == 2

\* iterations explored of a chunking loop that does not advance
MaxStuckChunks == 3

\* len(chunks) handed to the driver ranges over 1 .. MaxSegments
MaxSegments == 4

\* line 85: overlap_ms = self.overlap_sec * 1000
MsPerSec == 1000

\* line 212: min_overlap=10
DefaultMinOverlap == 10

HalfSec == MsPerSec \div 2

Alphabet == {"a", "b", " "}

MinOverlaps == (0 - MaxMinOverlap) .. MaxMinOverlap

Texts == UNION {[1 .. n -> Alphabet] : n \in 0 .. MaxTextLen}

\* ---------------------------------------------------------------- state
VARIABLES
    mpc,          \* merge_overlapping_text: "idle" | "called" | "returned"
    text1,        \* its argument text1
    text2,        \* its argument text2
    min_overlap,  \* its argument min_overlap
    merged,       \* its return value
    cpc,            \* chunk_audio: "idle" | "called" | "loop" | "returned"
    audio_len,      \* len(audio), milliseconds
    raw_len,        \* len(audio.raw_data), bytes
    max_size_bytes, \* self.max_size_bytes
    overlap_sec,    \* self.overlap_sec
    chunk_size_ms,  \* local chunk_size_ms
    overlap_ms,     \* local overlap_ms
    start,          \* local start
    chunks,         \* local chunks: the slice [start, end) asked of each chunk
    dpc,            \* process_large_audio: "idle" | "loop" | "combine" | "fold" | "returned"
    n_chunks,       \* len(chunks)
    i,              \* loop index of lines 183-198
    in_flight,      \* indices whose transcribe_chunk call has not come back
    results,        \* history: what each transcribe_chunk call came back with
    completed,      \* history: the indices in the order their calls came back
    transcriptions, \* local transcriptions
    src_index,      \* history: the segment index behind each entry of transcriptions
    failed_chunks,  \* local failed_chunks
    final_text,     \* local final_text
    fold_i,         \* loop index of lines 208-209
    folded          \* history: the segment indices folded into final_text, in order

mergeVars == <<mpc, text1, text2, min_overlap, merged>>

chunkVars == <<cpc, audio_len, raw_len, max_size_bytes, overlap_sec,
               chunk_size_ms, overlap_ms, start, chunks>>

driverVars == <<dpc, n_chunks, i, in_flight, results, completed, transcriptions,
                src_index, failed_chunks, final_text, fold_i, folded>>

vars == <<mergeVars, chunkVars, driverVars>>

\* ---------------------------------------------------------------- Python helpers
SetMin(S) == CHOOSE x \in S : \A y \in S : x <= y

Minimum(a, b) == IF a <= b THEN a ELSE b

Maximum(a, b) == IF a >= b THEN a ELSE b

\* a slice bound n of a sequence of length len, as Python clamps it
PyIndex(n, len) == IF n < 0 THEN Maximum(n + len, 0) ELSE Minimum(n, len)

\* s[n:]
SliceFrom(s, n) == SubSeq(s, PyIndex(n, Len(s)) + 1, Len(s))

\* s[:n]
SliceTo(s, n) == SubSeq(s, 1, PyIndex(n, Len(s)))

RECURSIVE SplitAcc(_, _, _, _)
SplitAcc(text, pos, cur, acc) ==
    IF pos > Len(text)
    THEN IF cur = <<>> THEN acc ELSE Append(acc, cur)
    ELSE IF text[pos] = " "
         THEN SplitAcc(text, pos + 1, <<>>, IF cur = <<>> THEN acc ELSE Append(acc, cur))
         ELSE SplitAcc(text, pos + 1, Append(cur, text[pos]), acc)

\* text.split(): the maximal runs of non-whitespace characters, in order
split(text) == SplitAcc(text, 1, <<>>, <<>>)

RECURSIVE join(_)
\* " ".join(words)
join(words) ==
    IF words = <<>> THEN <<>>
    ELSE IF Len(words) = 1 THEN words[1]
    ELSE words[1] \o <<" ">> \o join(Tail(words))

\* text.find(pat): the lowest 0-based index at which pat occurs in text, or -1
find(text, pat) ==
    LET hits == {p \in 0 .. (Len(text) - Len(pat)) :
                    SubSeq(text, p + 1, p + Len(pat)) = pat}
    IN  IF hits = {} THEN -1 ELSE SetMin(hits)

\* ---------------------------------------------------------------- merge_overlapping_text
\* suffix == prefix at window size w (the loop variable i of line 224)
WindowMatches(words1, words2, w) ==
    join(SliceFrom(words1, -w)) = join(SliceTo(words2, w))

\* the search started at window 1 whatever min_overlap is
best_overlap_from_one(words1, words2, min_ov) ==
    LET max_overlap == Minimum(Len(words1), Len(words2))
        hits == {w \in 1 .. max_overlap : WindowMatches(words1, words2, w)}
    IN  IF hits = {} THEN <<>> ELSE join(SliceFrom(words1, -SetMin(hits)))

\* the for loop of lines 224-230: best_overlap is the suffix of the first
\* window of range(min_overlap, max_overlap + 1) that matches, "" when none does
best_overlap_of(words1, words2, min_ov) ==
    LET max_overlap == Minimum(Len(words1), Len(words2))
        hits == {w \in min_ov .. max_overlap : WindowMatches(words1, words2, w)}
    IN  IF hits = {} THEN <<>> ELSE join(SliceFrom(words1, -SetMin(hits)))

\* the matched phrase returned in place of text1
merge_losing_text1(t1, t2, min_ov) ==
    IF t1 = <<>> \/ t2 = <<>>
    THEN IF t1 # <<>> THEN t1 ELSE t2
    ELSE LET best_overlap == best_overlap_of(split(t1), split(t2), min_ov)
             overlap_idx == find(t2, best_overlap)
         IN  IF best_overlap # <<>> /\ overlap_idx # -1
             THEN best_overlap \o SliceFrom(t2, overlap_idx + Len(best_overlap))
             ELSE t1 \o <<" ">> \o t2

\* the early return of lines 214-215 left out
merge_without_empty_check(t1, t2, min_ov) ==
    LET best_overlap == best_overlap_of(split(t1), split(t2), min_ov)
        overlap_idx == find(t2, best_overlap)
    IN  IF best_overlap # <<>> /\ overlap_idx # -1
        THEN t1 \o SliceFrom(t2, overlap_idx + Len(best_overlap))
        ELSE t1 \o <<" ">> \o t2

merge_overlapping_text(t1, t2, min_ov) ==
    IF t1 = <<>> \/ t2 = <<>>
    THEN IF t1 # <<>> THEN t1 ELSE t2
    ELSE LET best_overlap == best_overlap_of(split(t1), split(t2), min_ov)
             overlap_idx == find(t2, best_overlap)
         IN  IF best_overlap # <<>> /\ overlap_idx # -1
             THEN t1 \o SliceFrom(t2, overlap_idx + Len(best_overlap))
             ELSE t1 \o <<" ">> \o t2

\* ---------------------------------------------------------------- AudioChunker
\* int(self.max_size_bytes / (len(raw_data) / len(audio_segment)))
get_chunk_size_ms(raw, len, max_bytes) == (max_bytes * len) \div raw

\* the overlap added instead of subtracted
next_start_plus(end, overlap) == end + overlap

\* line 102: start = end - overlap_ms
next_start(end, overlap) == end - overlap

\* audio[start:end] stops at the end of the buffer
slice_end(c) == Minimum(c.end, audio_len)

ChunkIdle ==
    /\ cpc = "idle"
    /\ audio_len = 0 /\ raw_len = 0 /\ max_size_bytes = 0 /\ overlap_sec = 0
    /\ chunk_size_ms = 0 /\ overlap_ms = 0 /\ start = 0 /\ chunks = <<>>

ChunkInit ==
    /\ cpc = "called"
    /\ audio_len \in {HalfSec * k : k \in 1 .. MaxDurationSteps}
    /\ raw_len \in {audio_len * r : r \in 1 .. MaxBytesPerMs}
    /\ max_size_bytes \in {HalfSec * k : k \in 1 .. MaxSizeSteps}
    /\ overlap_sec \in 0 .. MaxOverlapSec
    /\ chunk_size_ms = 0 /\ overlap_ms = 0 /\ start = 0 /\ chunks = <<>>

\* lines 84-88
ChunkBegin ==
    /\ cpc = "called"
    /\ chunk_size_ms' = get_chunk_size_ms(raw_len, audio_len, max_size_bytes)
    /\ overlap_ms' = overlap_sec * MsPerSec
    /\ chunks' = <<>>
    /\ start' = 0
    /\ cpc' = "loop"
    /\ UNCHANGED <<audio_len, raw_len, max_size_bytes, overlap_sec>>
    /\ UNCHANGED <<mergeVars, driverVars>>

\* lines 90-102: one iteration of the while loop. A loop that advances runs as
\* long as the code does; one that does not is followed for MaxStuckChunks rounds.
ChunkIterate ==
    /\ cpc = "loop"
    /\ start < audio_len
    /\ (overlap_ms < chunk_size_ms \/ Len(chunks) < MaxStuckChunks)
    /\ LET end == start + chunk_size_ms
       IN  /\ chunks' = Append(chunks, [start |-> start, end |-> end])
           /\ start' = next_start(end, overlap_ms)
    /\ UNCHANGED <<cpc, audio_len, raw_len, max_size_bytes, overlap_sec,
                   chunk_size_ms, overlap_ms>>
    /\ UNCHANGED <<mergeVars, driverVars>>

\* line 104
ChunkReturn ==
    /\ cpc = "loop"
    /\ ~(start < audio_len)
    /\ cpc' = "returned"
    /\ UNCHANGED <<audio_len, raw_len, max_size_bytes, overlap_sec,
                   chunk_size_ms, overlap_ms, start, chunks>>
    /\ UNCHANGED <<mergeVars, driverVars>>

\* ---------------------------------------------------------------- process_large_audio
\* DefaultMinOverlap - 1 times the word "a" and a space
RECURSIVE WordsA(_)
WordsA(n) == IF n = 0 THEN <<>> ELSE <<"a", " ">> \o WordsA(n - 1)

\* a transcript that ends with DefaultMinOverlap words "a"
FragA == <<"b", " ">> \o WordsA(DefaultMinOverlap - 1) \o <<"a">>

\* a transcript that begins with DefaultMinOverlap words "a"
FragB == WordsA(DefaultMinOverlap) \o <<"b">>

FragC == <<"b">>

\* what a call of transcribe_chunk comes back with: a text (possibly ""), None
\* (lines 164-166), or an exception that escapes it (lines 150-152, 168)
Outcomes ==
    {[kind |-> "text", text |-> t] : t \in {FragA, FragB, FragC, <<>>}}
        \cup {[kind |-> "none", text |-> <<>>], [kind |-> "raise", text |-> <<>>]}

NoOutcome == [kind |-> "pending", text |-> <<>>]

\* an empty text taken for a transcript ("is not None" for truthiness)
is_truthy_not_none(o) == o.kind = "text"

\* line 189: if transcription:
is_truthy(o) == o.kind = "text" /\ o.text # <<>>

\* the new entry put first
list_prepend(l, x) == <<x>> \o l

\* list.append
list_append(l, x) == Append(l, x)

\* line 207: transcriptions[0] if transcriptions else ""
first_or_empty(ts) == IF ts # <<>> THEN ts[1] ELSE <<>>

DriverIdle ==
    /\ dpc = "idle"
    /\ n_chunks = 0 /\ i = 0 /\ in_flight = {} /\ results = <<>> /\ completed = <<>>
    /\ transcriptions = <<>> /\ src_index = <<>> /\ failed_chunks = <<>>
    /\ final_text = <<>> /\ fold_i = 0 /\ folded = <<>>

\* lines 172-180
DriverInit ==
    /\ dpc = "loop"
    /\ n_chunks \in 1 .. MaxSegments
    /\ i = 0 /\ in_flight = {}
    /\ results = [k \in 1 .. n_chunks |-> NoOutcome]
    /\ completed = <<>>
    /\ transcriptions = <<>> /\ src_index = <<>> /\ failed_chunks = <<>>
    /\ final_text = <<>> /\ fold_i = 0 /\ folded = <<>>

\* line 188: transcribe_chunk(chunk, language) is called for chunk i
Dispatch ==
    /\ dpc = "loop"
    /\ i < n_chunks
    /\ in_flight = {}
    /\ in_flight' = {i}
    /\ UNCHANGED <<dpc, n_chunks, i, results, completed, transcriptions, src_index,
                   failed_chunks, final_text, fold_i, folded>>
    /\ UNCHANGED <<mergeVars, chunkVars>>

\* lines 189-198: the call comes back with o; the loop moves on to the next chunk
Complete(o) ==
    /\ dpc = "loop"
    /\ in_flight = {i}
    /\ in_flight' = {}
    /\ results' = [results EXCEPT ![i + 1] = o]
    /\ completed' = Append(completed, i)
    /\ IF o.kind # "raise" /\ is_truthy(o)
       THEN /\ transcriptions' = list_append(transcriptions, o.text)
            /\ src_index' = list_append(src_index, i)
            /\ UNCHANGED failed_chunks
       ELSE /\ failed_chunks' = list_append(failed_chunks, i)
            /\ UNCHANGED <<transcriptions, src_index>>
    /\ i' = i + 1
    /\ UNCHANGED <<dpc, n_chunks, final_text, fold_i, folded>>
    /\ UNCHANGED <<mergeVars, chunkVars>>

Completes == \E o \in Outcomes : Complete(o)

\* lines 200-207: the loop is over; final_text starts as the first transcription
Combine ==
    /\ dpc = "loop"
    /\ ~(i < n_chunks)
    /\ final_text' = first_or_empty(transcriptions)
    /\ folded' = IF src_index # <<>> THEN <<src_index[1]>> ELSE <<>>
    /\ fold_i' = 1
    /\ dpc' = "fold"
    /\ UNCHANGED <<n_chunks, i, in_flight, results, completed, transcriptions,
                   src_index, failed_chunks>>
    /\ UNCHANGED <<mergeVars, chunkVars>>

\* lines 208-209: one round of the for loop
FoldStep ==
    /\ dpc = "fold"
    /\ fold_i < Len(transcriptions)
    /\ final_text' = merge_overlapping_text(final_text, transcriptions[fold_i + 1],
                                            DefaultMinOverlap)
    /\ folded' = Append(folded, src_index[fold_i + 1])
    /\ fold_i' = fold_i + 1
    /\ UNCHANGED <<dpc, n_chunks, i, in_flight, results, completed, transcriptions,
                   src_index, failed_chunks>>
    /\ UNCHANGED <<mergeVars, chunkVars>>

\* line 210
ReturnText ==
    /\ dpc = "fold"
    /\ ~(fold_i < Len(transcriptions))
    /\ dpc' = "returned"
    /\ UNCHANGED <<n_chunks, i, in_flight, results, completed, transcriptions,
                   src_index, failed_chunks, final_text, fold_i, folded>>
    /\ UNCHANGED <<mergeVars, chunkVars>>

\* ---------------------------------------------------------------- specification of merge
MergeIdle ==
    /\ mpc = "idle"
    /\ text1 = <<>> /\ text2 = <<>> /\ min_overlap = 0 /\ merged = <<>>

MergeInit ==
    /\ ChunkIdle
    /\ DriverIdle
    /\ mpc = "called"
    /\ text1 \in Texts
    /\ text2 \in Texts
    /\ min_overlap \in MinOverlaps
    /\ merged = <<>>

MergeReturn ==
    /\ mpc = "called"
    /\ merged' = merge_overlapping_text(text1, text2, min_overlap)
    /\ mpc' = "returned"
    /\ UNCHANGED <<text1, text2, min_overlap>>
    /\ UNCHANGED <<chunkVars, driverVars>>

MergeNext == MergeReturn

SpecMerge == MergeInit /\ [][MergeNext]_vars

\* ---------------------------------------------------------------- specification of chunk_audio
ChunkerInit == MergeIdle /\ DriverIdle /\ ChunkInit

ChunkNext == ChunkBegin \/ ChunkIterate \/ ChunkReturn

SpecChunk == ChunkerInit /\ [][ChunkNext]_vars

\* ---------------------------------------------------------------- specification of process_large_audio
PipelineInit == MergeIdle /\ ChunkIdle /\ DriverInit

DriverNext == Dispatch \/ Completes \/ Combine \/ FoldStep \/ ReturnText

SpecDriver == PipelineInit /\ [][DriverNext]_vars

\* ---------------------------------------------------------------- specification of the stitcher
\* merge_overlapping_text on its own inputs, and as process_large_audio folds with it
StitchInit == MergeInit \/ PipelineInit

StitchNext == MergeReturn \/ Dispatch \/ Completes \/ Combine \/ FoldStep \/ ReturnText

SpecStitch == StitchInit /\ [][StitchNext]_vars

\* ---------------------------------------------------------------- properties: the driver
\* segment k (1-based) failed: its call raised, returned None or returned ""
Failed(k) == results[k].kind \in {"none", "raise"} \/ results[k].text = <<>>

RECURSIVE MergeUpTo(_)
\* the left-to-right merge of the fragments of the segments 1 .. k that succeeded
MergeUpTo(k) ==
    IF k = 0 THEN <<>>
    ELSE IF Failed(k) THEN MergeUpTo(k - 1)
    ELSE IF \A j \in 1 .. (k - 1) : Failed(j) THEN results[k].text
    ELSE merge_overlapping_text(MergeUpTo(k - 1), results[k].text, DefaultMinOverlap)

Range(seq) == {seq[j] : j \in 1 .. Len(seq)}

Ascending(seq) == \A j, k \in 1 .. Len(seq) : j < k => seq[j] < seq[k]

ValidPlan == cpc \in {"loop", "returned"} /\ overlap_ms < chunk_size_ms

\* C3: a plan with overlap_ms >= segment_duration_ms emits no segment.
C3_RejectsNonAdvancingPlan ==
    (cpc \in {"loop", "returned"} /\ overlap_ms >= chunk_size_ms) => chunks = <<>>

\* C4: with 0 <= overlap_ms < segment_duration_ms the loop advances by at least
\* 1 ms a round (so it ends within len(audio) rounds); the segments are ordered,
\* start at 0, leave no gap, are each non-empty and at most segment_duration_ms
\* long, and on return there is at least one and the last ends at len(audio).
C4_Coverage ==
    ValidPlan =>
        /\ Len(chunks) <= start
        /\ Len(chunks) <= audio_len
        /\ cpc = "loop" => ENABLED ChunkNext
        /\ chunks # <<>> => chunks[1].start = 0
        /\ \A j \in 1 .. Len(chunks) :
            /\ chunks[j].start < slice_end(chunks[j])
            /\ slice_end(chunks[j]) - chunks[j].start <= chunk_size_ms
        /\ \A j \in 2 .. Len(chunks) :
            /\ chunks[j - 1].start < chunks[j].start
            /\ chunks[j].start <= slice_end(chunks[j - 1])
        /\ cpc = "returned" =>
            /\ Len(chunks) >= 1
            /\ slice_end(chunks[Len(chunks)]) = audio_len

\* several overlapping segments, the last one cut at the end of the buffer
C4_Witness ==
    /\ cpc = "returned"
    /\ ValidPlan
    /\ overlap_ms > 0
    /\ Len(chunks) >= 3
    /\ chunks[Len(chunks)].end > audio_len

\* C5: a buffer no longer than segment_duration_ms gives exactly one segment,
\* the whole buffer, for every accepted overlap.
C5_SingleSegment ==
    (cpc = "returned" /\ ValidPlan /\ chunk_size_ms >= audio_len) =>
        /\ Len(chunks) = 1
        /\ chunks[1].start = 0
        /\ slice_end(chunks[1]) = audio_len

\* C6: every segment but the first begins overlap_ms before the actual
\* (buffer-clipped) end of the segment before it.
C6_OverlapFromActualEnd ==
    ValidPlan =>
        \A j \in 2 .. Len(chunks) :
            chunks[j].start = slice_end(chunks[j - 1]) - overlap_ms

\* ---------------------------------------------------------------- properties: merge
\* the last k words of ws
LastWords(ws, k) == SubSeq(ws, Len(ws) - k + 1, Len(ws))

\* the first k words of ws
FirstWords(ws, k) == SubSeq(ws, 1, k)

\* the window sizes k >= lo at which the tail of a meets the head of b
OverlapSizes(a, b, lo) ==
    {k \in lo .. Minimum(Len(split(a)), Len(split(b))) :
        LastWords(split(a), k) = FirstWords(split(b), k)}

\* the number of characters of text up to the end of its k-th word
EndOfWord(text, k) ==
    SetMin({p \in 1 .. Len(text) :
                split(SubSeq(text, 1, p)) = FirstWords(split(text), k)})

IsPrefix(a, b) == Len(a) <= Len(b) /\ SubSeq(b, 1, Len(a)) = a

MergeArgsValid == text1 # <<>> /\ text2 # <<>> /\ min_overlap >= 1

\* C7: when some window k >= min_overlap matches, the result is text1 followed
\* by what follows the first (smallest-k) matched words in text2, whatever
\* whitespace text2 has before and between them.
C7_OverlapCollapsed ==
    (mpc = "returned" /\ MergeArgsValid
        /\ OverlapSizes(text1, text2, min_overlap) # {}) =>
        merged = text1 \o SliceFrom(text2,
                    EndOfWord(text2, SetMin(OverlapSizes(text1, text2, min_overlap))))

\* C8: min_overlap <= 0 is rejected: merge returns nothing.
C8_RejectsNonPositive == min_overlap <= 0 => mpc # "returned"

\* C9: for non-empty distinct a, b with a genuine overlap, merge(a, b) # merge(b, a).
C9_OrderSensitive ==
    (mpc = "returned" /\ MergeArgsValid /\ text1 # text2
        /\ OverlapSizes(text1, text2, min_overlap) # {}) =>
        merged # merge_overlapping_text(text2, text1, min_overlap)

\* C9 (amended): for non-empty a, b with a genuine overlap, neither a prefix of
\* the other, merge(a, b) # merge(b, a).
C9_OrderSensitiveUnlessPrefix ==
    (mpc = "returned" /\ MergeArgsValid
        /\ ~IsPrefix(text1, text2) /\ ~IsPrefix(text2, text1)
        /\ OverlapSizes(text1, text2, min_overlap) # {}) =>
        merged # merge_overlapping_text(text2, text1, min_overlap)

\* merge("a b", "b a", 1) = "a b a", and merge("b a", "a b", 1) = "b a b"
C9_Witness ==
    /\ mpc = "returned"
    /\ text1 = <<"a", " ", "b">> /\ text2 = <<"b", " ", "a">> /\ min_overlap = 1
    /\ merged = <<"a", " ", "b", " ", "a">>
    /\ merge_overlapping_text(text2, text1, min_overlap) = <<"b", " ", "a", " ", "b">>

\* C10: for non-empty texts and min_overlap >= 1, when no window k in
\* [min_overlap, min(len(W1), len(W2))] matches (the range may be empty), the
\* result is text1, one space, text2.
C10_FallbackConcatenation ==
    (mpc = "returned" /\ MergeArgsValid
        /\ OverlapSizes(text1, text2, min_overlap) = {}) =>
        merged = text1 \o <<" ">> \o text2

\* merge("a b", "b a", 2): the one-word overlap is below min_overlap
C10_Witness ==
    /\ mpc = "returned"
    /\ text1 = <<"a", " ", "b">> /\ text2 = <<"b", " ", "a">> /\ min_overlap = 2
    /\ OverlapSizes(text1, text2, 1) = {1}
    /\ merged = <<"a", " ", "b", " ", "b", " ", "a">>

\* C11: when either text is empty the result is the other text unchanged, no
\* separator added: merge("", b) = b, merge(a, "") = a, merge("", "") = "".
C11_EmptyInput ==
    mpc = "returned" =>
        /\ text1 = <<>> => merged = text2
        /\ text2 = <<>> => merged = text1

\* merge("", "a b", 1) = "a b"
C11_Witness ==
    /\ mpc = "returned"
    /\ text1 = <<>> /\ text2 = <<"a", " ", "b">> /\ min_overlap = 1
    /\ merged = <<"a", " ", "b">>

\* the segments (1-based) whose call came back with a non-empty text
Succeeded == {k \in 1 .. n_chunks : ~Failed(k)}

\* text1 is the beginning of what merge returned for a non-empty text1
MergeKeepsText1 ==
    (mpc = "returned" /\ text1 # <<>> /\ min_overlap >= 1) => IsPrefix(text1, merged)

\* once folding has begun, the text begins with the lowest-index fragment that succeeded
FoldBeginsWithFirst ==
    (dpc \in {"fold", "returned"} /\ Succeeded # {}) =>
        IsPrefix(results[SetMin(Succeeded)].text, final_text)

\* C12: for every non-empty text1, every text2 and every min_overlap >= 1, text1
\* is a prefix of merge(text1, text2); in the driver's fold the running text
\* before each step is a prefix of the running text after it, and the text
\* begins with the lowest-index successful fragment.
C12_TextPreserved ==
    /\ [](MergeKeepsText1 /\ FoldBeginsWithFirst)
    /\ [][IsPrefix(final_text, final_text')]_vars

\* segment 0 failed; fragments 1 and 2 were folded, the overlap collapsed, and
\* the text begins with fragment 1
C12_Witness ==
    /\ dpc = "returned"
    /\ folded = <<1, 2>>
    /\ results[2].text = FragA /\ results[3].text = FragB
    /\ IsPrefix(FragA, final_text)
    /\ final_text = FragA \o <<" ", "b">>

====
